---------------------------- MODULE Spec2Model ----------------------------
(***************************************************************************)
(* Route handlers of the relationship decision engine: POST /api/analyze,  *)
(* GET/POST /api/relationships, GET/POST /api/events, GET /api/insights    *)
(* and POST /api/messages, over the hosted store's four tables and the     *)
(* completion API.                                                         *)
(*                                                                         *)
(* A text (a request body, a response body of the completion API, the      *)
(* content of a completion, any JavaScript string) is a sequence of        *)
(* lexemes.  JSON.parse and Request.json() are the recursive-descent       *)
(* parser JSONParse over such a sequence.  A JavaScript value is a record  *)
(* of its type tag t and, by type, its payload: b (a boolean), n (a        *)
(* numeric literal), s (a string's text), f (an object's members),         *)
(* e (an array's elements).                                                *)
(***************************************************************************)
EXTENDS Integers, Sequences, FiniteSets, TLC

----------------------------------------------------------------------------
(* JavaScript values *)

Undef == [t |-> "undef"]
JNull == [t |-> "null"]
JBool(b) == [t |-> "bool", b |-> b]
JNum(n) == [t |-> "num", n |-> n]
JStr(text) == [t |-> "str", s |-> text]
JObj(f) == [t |-> "obj", f |-> f]
JArr(e) == [t |-> "arr", e |-> e]

(* What the store hands back as data: a row, or the rows of a select. *)
Row(row) == [t |-> "row", row |-> row]
Rows(rows) == [t |-> "rows", rows |-> rows]

EmptyFields == [k \in {} |-> Undef]

(* Lexemes: punctuation and literals, a bare word, a number, a string. *)
P(c) == [lx |-> c, s |-> <<>>, a |-> ""]
W(word) == [lx |-> "word", s |-> <<>>, a |-> word]
N(lit) == [lx |-> "num", s |-> <<>>, a |-> lit]
S(text) == [lx |-> "str", s |-> text, a |-> ""]

(* A member name is a one-word string. *)
Key(word) == <<W(word)>>

(* The string made of one word. *)
Str(word) == JStr(<<W(word)>>)

(* Numeric literals that denote zero. *)
ZeroLiterals == {"0", "0.0", "-0"}

(* ToBoolean: undefined, null, false, 0 and "" are falsy. *)
Truthy(x) ==
  CASE x.t = "undef" -> FALSE
    [] x.t = "null" -> FALSE
    [] x.t = "bool" -> x.b
    [] x.t = "num" -> x.n \notin ZeroLiterals
    [] x.t = "str" -> Len(x.s) > 0
    [] OTHER -> TRUE

(* x.k for an x that is neither null nor undefined (x?.k for any x):      *)
(* the member of an object, undefined on anything else.                   *)
Get(x, k) ==
  IF x.t = "obj" /\ Key(k) \in DOMAIN x.f THEN x.f[Key(k)] ELSE Undef

(* x?.[i] with a zero-based index. *)
At(x, i) ==
  IF x.t = "arr" /\ i + 1 \in DOMAIN x.e THEN x.e[i + 1] ELSE Undef

(* x.k throws a TypeError on null and undefined. *)
Throws(x) == x.t \in {"undef", "null"}

(* a ?? b *)
Nullish(a, b) == IF a.t \in {"undef", "null"} THEN b ELSE a

(* a || b *)
OrElse(a, b) == IF Truthy(a) THEN a ELSE b

----------------------------------------------------------------------------
(* Texts and the JSON parser *)

Fail == [ok |-> FALSE, val |-> Undef, next |-> 0]
Ok(val, next) == [ok |-> TRUE, val |-> val, next |-> next]

Put(f, k, x) == [j \in DOMAIN f \cup {k} |-> IF j = k THEN x ELSE f[j]]

RECURSIVE ParseValue(_, _), ParseMembers(_, _, _), ParseElems(_, _, _)

ParseValue(text, i) ==
  IF i > Len(text) THEN Fail
  ELSE LET c == text[i].lx IN
    CASE c = "str" -> Ok(JStr(text[i].s), i + 1)
      [] c = "num" -> Ok(JNum(text[i].a), i + 1)
      [] c = "true" -> Ok(JBool(TRUE), i + 1)
      [] c = "false" -> Ok(JBool(FALSE), i + 1)
      [] c = "null" -> Ok(JNull, i + 1)
      [] c = "{" ->
           IF i + 1 <= Len(text) /\ text[i + 1].lx = "}"
           THEN Ok(JObj(EmptyFields), i + 2)
           ELSE ParseMembers(text, i + 1, EmptyFields)
      [] c = "[" ->
           IF i + 1 <= Len(text) /\ text[i + 1].lx = "]"
           THEN Ok(JArr(<<>>), i + 2)
           ELSE ParseElems(text, i + 1, <<>>)
      [] OTHER -> Fail

ParseMembers(text, i, acc) ==
  IF i + 1 > Len(text) \/ text[i].lx # "str" \/ text[i + 1].lx # ":" THEN Fail
  ELSE LET r == ParseValue(text, i + 2) IN
    IF ~r.ok \/ r.next > Len(text) THEN Fail
    ELSE LET obj == Put(acc, text[i].s, r.val) IN
      CASE text[r.next].lx = "," -> ParseMembers(text, r.next + 1, obj)
        [] text[r.next].lx = "}" -> Ok(JObj(obj), r.next + 1)
        [] OTHER -> Fail

ParseElems(text, i, acc) ==
  LET r == ParseValue(text, i) IN
    IF ~r.ok \/ r.next > Len(text) THEN Fail
    ELSE
      CASE text[r.next].lx = "," -> ParseElems(text, r.next + 1, Append(acc, r.val))
        [] text[r.next].lx = "]" -> Ok(JArr(Append(acc, r.val)), r.next + 1)
        [] OTHER -> Fail

(* JSON.parse(text): ok and the value, or not ok (a SyntaxError). *)
JSONParse(text) ==
  LET r == ParseValue(text, 1) IN
    IF r.ok /\ r.next = Len(text) + 1 THEN r ELSE Fail

(* String(x): the text JSON.parse reads when handed a non-string. *)
RECURSIVE ToText(_)
ToText(x) ==
  CASE x.t = "str" -> x.s
    [] x.t = "num" -> <<N(x.n)>>
    [] x.t = "bool" -> IF x.b THEN <<P("true")>> ELSE <<P("false")>>
    [] x.t = "null" -> <<P("null")>>
    [] x.t = "undef" -> <<W("undefined")>>
    [] x.t = "arr" ->
         IF Len(x.e) = 0 THEN <<>>
         ELSE LET head == IF Throws(x.e[1]) THEN <<>> ELSE ToText(x.e[1]) IN
           IF Len(x.e) = 1 THEN head
           ELSE head \o <<P(",")>> \o ToText(JArr(Tail(x.e)))
    [] OTHER -> <<W("[object Object]")>>

(* The text of an object literal: pairs of a member name and a value's text. *)
RECURSIVE Members(_)
Members(pairs) ==
  IF Len(pairs) = 0 THEN <<>>
  ELSE <<S(Key(pairs[1][1])), P(":")>> \o pairs[1][2]
       \o (IF Len(pairs) > 1 THEN <<P(",")>> \o Members(Tail(pairs)) ELSE <<>>)

ObjText(pairs) == <<P("{")>> \o Members(pairs) \o <<P("}")>>

(* The text of a one-word string literal. *)
Lit(word) == <<S(Key(word))>>

----------------------------------------------------------------------------
(* Responses *)

NoResponse == [kind |-> "none", status |-> 0, body |-> Undef]

(* NextResponse.json(body, {status}) *)
Json(body, status) == [kind |-> "json", status |-> status, body |-> body]

(* The handler's promise rejects: an exception escaped it. *)
Escaped == [kind |-> "threw", status |-> 0, body |-> Undef]

(* A variant of ErrorBody that names the member message. *)
ErrorBody_Message(message) == JObj(Key("message") :> message)

(* { error: message } *)
ErrorBody(message) == JObj(Key("error") :> message)
ErrorRawBody(message, raw) == JObj(Key("error") :> message @@ Key("raw") :> raw)

----------------------------------------------------------------------------
(* The hosted store *)

(* A query's answer: { data, error }. *)
StoreError(word) ==
  [data |-> JNull, error |-> JObj(Key("message") :> Str(word))]
StoreData(data) == [data |-> data, error |-> JNull]

(* What a store call can meet: the query is run, or the store (or the      *)
(* network to it) fails and the client answers with an error.  The client  *)
(* never throws: it turns every failure into { error }.                    *)
StoreOutcomes == {"ok", "error"}

(* .eq(column, value) *)
Eq(rows, column, value) ==
  SelectSeq(rows, LAMBDA row : row[column] = value)

(* A variant of OrderDesc that leaves the rows as the table holds them.   *)
OrderDesc_AsStored(rows) == rows

(* .order('created_at', { ascending: false }): the place of row j among  *)
(* rows is one more than the rows that come before it, the newer ones     *)
(* and, of the rows of its created_at, the ones the table holds first.    *)
Place(rows, j) ==
  1 + Cardinality({i \in DOMAIN rows :
        \/ rows[i].created_at > rows[j].created_at
        \/ rows[i].created_at = rows[j].created_at /\ i < j})

OrderDesc(rows) ==
  [k \in 1..Len(rows) |-> rows[CHOOSE j \in DOMAIN rows : Place(rows, j) = k]]

(* A variant of Limit that keeps every row. *)
Limit_All(rows, n) == rows

(* .limit(n) *)
Limit(rows, n) == SubSeq(rows, 1, IF Len(rows) < n THEN Len(rows) ELSE n)

(* .single(): the one row, and an error when the rows are none or several. *)
Single(rows) ==
  IF Len(rows) = 1 THEN StoreData(Row(rows[1]))
  ELSE StoreError("PGRST116")

----------------------------------------------------------------------------
(* State *)

VARIABLES
  relationships,  \* the store's relationships table, in insertion order
  events,         \* the store's events table
  insights,       \* the store's insights table
  messages,       \* the store's messages table
  clock,          \* the store's clock: the next created_at
  apiKey,         \* whether process.env.GROQ_API_KEY is set
  req,            \* the invocations of the handlers, one per request
  dash            \* the dashboard page: its React state and its fetches

vars == <<relationships, events, insights, messages, clock, apiKey, req, dash>>

(* The requests in flight at once. *)
NumReqs == 2
Reqs == 1..NumReqs

(* .limit(10) of the analyze handler's events query. *)
EventLimit == 10

NoGroq == [threw |-> FALSE, status |-> 0, body |-> <<>>]
NoPrompt == [name |-> Undef, type |-> Undef, notes |-> Undef, events |-> <<>>]

Idle ==
  [route |-> "idle", pc |-> "idle", input |-> <<>>, relationship_id |-> Undef,
   relationship |-> Undef, prompt |-> NoPrompt, groq |-> NoGroq,
   aiText |-> Undef, parsed |-> Undef, trace |-> <<>>, inserted |-> 0,
   resp |-> NoResponse]

(* The dashboard page as it mounts: nothing selected, nothing fetched.    *)
(* flights are the fetches it has started, in the order it started them.  *)
NoDashboard ==
  [selected |-> JNull, events |-> <<>>, loadingEvents |-> FALSE,
   insightHistory |-> <<>>, isLoadingInsights |-> FALSE,
   selectedInsight |-> JNull, isAnalyzing |-> FALSE,
   analysisError |-> JNull, error |-> JNull,
   flights |-> <<>>, clicks |-> 0]

(* The rows the store holds when the handlers start serving. *)
InitialRelationships ==
  << [id |-> Str("r1"), person_name |-> Str("Alice"), type |-> Str("friend"),
      notes |-> JNull, created_at |-> 1],
     [id |-> Str("r2"), person_name |-> Str("Bob"), type |-> JNull,
      notes |-> Str("met at work"), created_at |-> 2] >>

InitialEvents ==
  [i \in 1..(EventLimit + 2) |->
     [relationship_id |-> IF i = 3 THEN Str("r2") ELSE Str("r1"),
      event_type |-> IF i % 2 = 0 THEN Str("call") ELSE Str("dinner"),
      description |-> IF i % 3 = 0 THEN JNull ELSE Str("went well"),
      created_at |-> 2 + i]]

FirstClock == 3 + EventLimit + 2

Init ==
  /\ relationships = InitialRelationships
  /\ events \in {<<>>, InitialEvents}
  /\ insights = <<>>
  /\ messages = <<>>
  /\ clock = FirstClock
  /\ apiKey \in BOOLEAN
  /\ req = [r \in Reqs |-> Idle]
  /\ dash = NoDashboard

(* An entry of a request's trace: a call of the store or of the          *)
(* completion API, and whether it answered without an error.              *)
Call(name, ok) == [call |-> name, ok |-> ok]

----------------------------------------------------------------------------
(* POST /api/analyze *)

(* Request bodies. *)
AnalyzeBodies ==
  { <<W("not json")>>,
    <<P("null")>>,
    ObjText(<<>>),
    ObjText(<< <<"relationship_id", <<S(<<>>)>> >> >>),
    ObjText(<< <<"relationship_id", Lit("r1")>> >>),
    ObjText(<< <<"relationship_id", Lit("r9")>> >>) }

(* await request.json().catch(() => null) *)
BodyOrNull(text) ==
  LET json == JSONParse(text) IN IF json.ok THEN json.val ELSE JNull

(* A variant of RelationshipIdMissing that tests for null alone. *)
RelationshipIdMissing_NullOnly(relationship_id) == relationship_id = JNull

(* !relationship_id *)
RelationshipIdMissing(relationship_id) == ~Truthy(relationship_id)

(* A variant of AnalyzeStart that reads the body before it looks for the  *)
(* API key.                                                               *)
AnalyzeStart_BodyFirst(r, text) ==
  /\ req[r].pc = "idle"
  /\ LET body == BodyOrNull(text)
         relationship_id == Get(body, "relationship_id")
         started == [req[r] EXCEPT !.route = "analyze", !.input = text]
     IN req' = [req EXCEPT ![r] =
         IF RelationshipIdMissing(relationship_id)
         THEN [started EXCEPT !.pc = "done",
                 !.resp = Json(ErrorBody(Str("relationship_id is required")), 400)]
         ELSE IF ~apiKey
         THEN [started EXCEPT !.pc = "done",
                 !.resp = Json(ErrorBody(Str("Missing GROQ_API_KEY")), 500)]
         ELSE [started EXCEPT !.pc = "fetchRel",
                 !.relationship_id = relationship_id]]
  /\ UNCHANGED <<relationships, events, insights, messages, clock, apiKey, dash>>

(* Steps 1 and 2: the API key, the body, relationship_id. *)
AnalyzeStart(r, text) ==
  /\ req[r].pc = "idle"
  /\ LET body == BodyOrNull(text)
         relationship_id == Get(body, "relationship_id")
         started == [req[r] EXCEPT !.route = "analyze", !.input = text]
     IN req' = [req EXCEPT ![r] =
         IF ~apiKey
         THEN [started EXCEPT !.pc = "done",
                 !.resp = Json(ErrorBody(Str("Missing GROQ_API_KEY")), 500)]
         ELSE IF RelationshipIdMissing(relationship_id)
         THEN [started EXCEPT !.pc = "done",
                 !.resp = Json(ErrorBody(Str("relationship_id is required")), 400)]
         ELSE [started EXCEPT !.pc = "fetchRel",
                 !.relationship_id = relationship_id]]
  /\ UNCHANGED <<relationships, events, insights, messages, clock, apiKey, dash>>

(* Step 3: the relationship, by .eq('id', relationship_id).single(). *)
AnalyzeFetchRelationship(r) ==
  /\ req[r].route = "analyze" /\ req[r].pc = "fetchRel"
  /\ \E outcome \in StoreOutcomes :
       LET answer == IF outcome = "error" THEN StoreError("store unavailable")
                     ELSE Single(Eq(relationships, "id", req[r].relationship_id))
           relationship == answer.data
           relError == answer.error
           called == [req[r] EXCEPT !.trace =
                        Append(@, Call("relationships.select", ~Truthy(relError)))]
       IN req' = [req EXCEPT ![r] =
           IF Truthy(relError)
           THEN [called EXCEPT !.pc = "done",
                   !.resp = Json(ErrorBody(Get(relError, "message")), 500)]
           ELSE IF ~Truthy(relationship)
           THEN [called EXCEPT !.pc = "done",
                   !.resp = Json(ErrorBody(Str("Relationship not found")), 404)]
           ELSE [called EXCEPT !.pc = "fetchEvents",
                   !.relationship = relationship]]
  /\ UNCHANGED <<relationships, events, insights, messages, clock, apiKey, dash>>

(* `- [${e.created_at}] (${e.event_type}) ${e.description ?? ''}` *)
EventLine(e) ==
  [created_at |-> e.created_at, event_type |-> e.event_type,
   description |-> Nullish(e.description, JStr(<<>>))]

(* eventsText: one line an event, or the placeholder. *)
EventsText(rows) ==
  IF Len(rows) > 0 THEN [i \in DOMAIN rows |-> EventLine(rows[i])]
  ELSE <<[placeholder |-> "No events logged."]>>

(* Steps 4 and 5: the recent events and the prompt. *)
AnalyzeFetchEvents(r) ==
  /\ req[r].route = "analyze" /\ req[r].pc = "fetchEvents"
  /\ \E outcome \in StoreOutcomes :
     \E matching \in {Eq(events, "relationship_id", req[r].relationship_id)} :
     \E answer \in
         {IF outcome = "error" THEN StoreError("store unavailable")
          ELSE StoreData(Rows(Limit(OrderDesc(matching), EventLimit)))} :
       LET eventsError == answer.error
           relationship == req[r].relationship.row
           called == [req[r] EXCEPT !.trace =
                        Append(@, Call("events.select", ~Truthy(eventsError)))]
       IN req' = [req EXCEPT ![r] =
           IF Truthy(eventsError)
           THEN [called EXCEPT !.pc = "done",
                   !.resp = Json(ErrorBody(Get(eventsError, "message")), 500)]
           ELSE [called EXCEPT !.pc = "callGroq",
                   !.prompt =
                     [name |-> Nullish(relationship.person_name, Str("Unknown")),
                      type |-> Nullish(relationship.type, Str("Not specified")),
                      notes |-> Nullish(relationship.notes, Str("None")),
                      events |-> EventsText(answer.data.rows)]]]
  /\ UNCHANGED <<relationships, events, insights, messages, clock, apiKey, dash>>

(* The six-field object the prompt asks for, as a text. *)
InsightText(risk, growth) ==
  ObjText(<< <<"summary", Lit("close friends")>>,
             <<"pattern", Lit("weekly contact")>>,
             <<"risk_score", risk>>,
             <<"growth_score", growth>>,
             <<"recommended_action", Lit("plan a trip")>>,
             <<"suggested_message", Lit("hey, how are you")>> >>)

(* What choices[0].message.content can hold, as texts of a string. *)
CompletionTexts ==
  { <<>>,
    <<W("Here is the analysis you asked for")>>,
    <<P("null")>>,
    <<N("5")>>,
    InsightText(<<N("0.7")>>, <<N("0.4")>>),
    InsightText(<<N("1.5")>>, Lit("high")),
    ObjText(<< <<"summary", Lit("close friends")>> >>),
    <<P("{"), S(Key("summary")), P(":")>> }

(* The body of a completion whose content has the text contentText. *)
CompletionBody(contentText) ==
  ObjText(<< <<"choices",
     <<P("[")>> \o ObjText(<< <<"message",
                     ObjText(<< <<"content", contentText>> >>)>> >>) \o <<P("]")>> >> >>)

(* The HTTP statuses the completion API answers with when it refuses. *)
GroqErrorStatuses == {401, 429, 500}

(* What fetch() of the completion API can meet: it rejects, the API       *)
(* answers with a non-2xx status, or it answers 200 with some body.       *)
GroqOutcomes ==
  {[threw |-> TRUE, status |-> 0, body |-> <<>>]}
  \cup [threw : {FALSE}, status : GroqErrorStatuses,
        body : { <<W("<html>")>>,
                 ObjText(<< <<"error", ObjText(<< <<"message", Lit("rate limited")>> >>)>> >>),
                 ObjText(<< <<"message", Lit("unauthorized")>> >>),
                 ObjText(<< <<"message", <<N("7")>> >> >>) }]
  \cup [threw : {FALSE}, status : {200},
        body : { <<W("<html>")>>, <<N("0")>>, ObjText(<<>>),
                 CompletionBody(<<P("null")>>), CompletionBody(<<N("7")>>) }
               \cup {CompletionBody(<<S(text)>>) : text \in CompletionTexts}]

(* `Groq HTTP ${groqResponse.status}` *)
GroqHttp(status) ==
  JStr(<<W("Groq HTTP"),
         N(CASE status = 401 -> "401" [] status = 429 -> "429"
             [] status = 500 -> "500" [] OTHER -> "status")>>)

(* groqJson.choices?.[0]?.message?.content || '' *)
AiText(groqJson) ==
  OrElse(Get(Get(At(Get(groqJson, "choices"), 0), "message"), "content"), JStr(<<>>))

(* A variant of InsightRow with the two scores in each other's column. *)
InsightRow_ScoresSwapped(relationship_id, parsed) ==
  [relationship_id |-> relationship_id,
   summary |-> Get(parsed, "summary"),
   pattern |-> Get(parsed, "pattern"),
   risk_score |-> Get(parsed, "growth_score"),
   growth_score |-> Get(parsed, "risk_score"),
   recommended_action |-> Get(parsed, "recommended_action"),
   suggested_message |-> Get(parsed, "suggested_message")]

(* The row of step 8's insert: reading a member of parsed. *)
InsightRow(relationship_id, parsed) ==
  [relationship_id |-> relationship_id,
   summary |-> Get(parsed, "summary"),
   pattern |-> Get(parsed, "pattern"),
   risk_score |-> Get(parsed, "risk_score"),
   growth_score |-> Get(parsed, "growth_score"),
   recommended_action |-> Get(parsed, "recommended_action"),
   suggested_message |-> Get(parsed, "suggested_message")]

(* groqResponse.ok *)
GroqOk(g) == ~g.threw /\ g.status >= 200 /\ g.status <= 299

(* A variant of GroqErrorResponse that answers 500 whatever the status. *)
GroqErrorResponse_Always500(errorBody, status) ==
  LET message == OrElse(Get(Get(errorBody, "error"), "message"),
                        OrElse(Get(errorBody, "message"), GroqHttp(status)))
  IN Json(ErrorBody(message), 500)

(* The answer to a non-2xx status of the completion API. *)
GroqErrorResponse(errorBody, status) ==
  LET message == OrElse(Get(Get(errorBody, "error"), "message"),
                        OrElse(Get(errorBody, "message"), GroqHttp(status)))
  IN Json(ErrorBody(message), status)

(* A variant of EmptyResponse that reports a parse error. *)
EmptyResponse_ParseError(groqJson) ==
  Json(ErrorRawBody(Str("Groq JSON parse error"), groqJson), 500)

(* The answer to a completion without content. *)
EmptyResponse(groqJson) ==
  Json(ErrorRawBody(Str("Empty response from Groq"), groqJson), 500)

(* A variant of ParseErrorResponse that leaves the raw text out. *)
ParseErrorResponse_NoRaw(aiText) ==
  Json(ErrorBody(Str("Groq JSON parse error")), 500)

(* The answer to a content JSON.parse rejects. *)
ParseErrorResponse(aiText) ==
  Json(ErrorRawBody(Str("Groq JSON parse error"), aiText), 500)

(* What analyze answers to the completion API's answer g; parsed is set   *)
(* when the handler goes on to the insert.                                *)
AnalyzeGroqResult(g) ==
  LET none == [go |-> FALSE, aiText |-> Undef, parsed |-> Undef, resp |-> NoResponse]
  IN
  IF g.threw
  THEN [none EXCEPT !.resp = Json(ErrorBody(Str("fetch failed")), 500)]
  ELSE IF ~GroqOk(g)
  THEN LET json == JSONParse(g.body)
           errorBody == IF json.ok THEN json.val ELSE JNull
       IN [none EXCEPT !.resp = GroqErrorResponse(errorBody, g.status)]
  ELSE LET json == JSONParse(g.body)
           groqJson == IF json.ok THEN json.val ELSE JNull
           aiText == AiText(groqJson)
           text == JSONParse(ToText(aiText))
           parsed == text.val
       IN
         IF ~Truthy(groqJson)
         THEN [none EXCEPT !.resp =
                 Json(ErrorBody(Str("Failed to parse Groq response")), 500)]
         ELSE IF ~Truthy(aiText)
         THEN [none EXCEPT !.aiText = aiText, !.resp = EmptyResponse(groqJson)]
         ELSE IF ~text.ok
         THEN [none EXCEPT !.aiText = aiText, !.resp = ParseErrorResponse(aiText)]
         ELSE IF Throws(parsed)
         THEN [none EXCEPT !.aiText = aiText, !.parsed = parsed, !.resp =
                 Json(ErrorBody(Str("Cannot read properties of null")), 500)]
         ELSE [none EXCEPT !.go = TRUE, !.aiText = aiText, !.parsed = parsed]

(* AnalyzeGroqResult, answer by answer. *)
GroqResults == [g \in GroqOutcomes |-> AnalyzeGroqResult(g)]

(* Steps 6 and 7: the completion API call and the parse of its answer. *)
AnalyzeCallGroq(r) ==
  /\ req[r].route = "analyze" /\ req[r].pc = "callGroq"
  /\ \E g \in GroqOutcomes :
       LET res == GroqResults[g]
           called == [req[r] EXCEPT !.trace = Append(@, Call("groq", GroqOk(g))),
                                    !.groq = g,
                                    !.aiText = res.aiText, !.parsed = res.parsed]
       IN req' = [req EXCEPT ![r] =
                    IF res.go THEN [called EXCEPT !.pc = "insert"]
                    ELSE [called EXCEPT !.pc = "done", !.resp = res.resp]]
  /\ UNCHANGED <<relationships, events, insights, messages, clock, apiKey, dash>>

(* A column the insert leaves out (undefined is not serialised) is null. *)
Column(x) == IF x = Undef THEN JNull ELSE x

(* .from(table).insert(row): the row as stored, with its created_at. *)
Stored(row, at) ==
  [k \in DOMAIN row \cup {"created_at"} |->
     IF k = "created_at" THEN at ELSE Column(row[k])]

(* A variant of InsertAnswered that tries the insert again when the       *)
(* store answers with an error.                                           *)
InsertAnswered_RetriesOnError(r, outcome) ==
  LET called == [req[r] EXCEPT !.trace =
                   Append(@, Call("insights.insert", outcome = "ok"))]
      row == InsightRow(req[r].relationship_id, req[r].parsed)
  IN
    IF outcome = "error"
    THEN /\ req' = [req EXCEPT ![r] = called]
         /\ UNCHANGED <<insights, clock>>
    ELSE /\ insights' = Append(insights, Stored(row, clock))
         /\ clock' = clock + 1
         /\ req' = [req EXCEPT ![r] = [called EXCEPT !.pc = "done",
                      !.inserted = @ + 1,
                      !.resp = Json(req[r].parsed, 200)]]

(* A variant of InsertAnswered that commits the row before it looks at    *)
(* the store's answer.                                                    *)
InsertAnswered_WritesThenFails(r, outcome) ==
  LET called == [req[r] EXCEPT !.trace =
                   Append(@, Call("insights.insert", outcome = "ok"))]
      row == InsightRow(req[r].relationship_id, req[r].parsed)
  IN
    /\ insights' = Append(insights, Stored(row, clock))
    /\ clock' = clock + 1
    /\ req' = [req EXCEPT ![r] = [called EXCEPT !.pc = "done",
                 !.inserted = @ + 1,
                 !.resp = IF outcome = "error"
                          THEN Json(ErrorBody(Str("insert failed")), 500)
                          ELSE Json(req[r].parsed, 200)]]

(* A variant of InsertAnswered that keeps one insight a relationship: a   *)
(* second insert for the same relationship is refused.                    *)
InsertAnswered_OnePerRelationship(r, outcome) ==
  LET called == [req[r] EXCEPT !.trace =
                   Append(@, Call("insights.insert", outcome = "ok"))]
      row == InsightRow(req[r].relationship_id, req[r].parsed)
  IN
    IF outcome = "error"
       \/ Len(Eq(insights, "relationship_id", req[r].relationship_id)) > 0
    THEN /\ req' = [req EXCEPT ![r] = [called EXCEPT !.pc = "done",
                      !.resp = Json(ErrorBody(Str("insert failed")), 500)]]
         /\ UNCHANGED <<insights, clock>>
    ELSE /\ insights' = Append(insights, Stored(row, clock))
         /\ clock' = clock + 1
         /\ req' = [req EXCEPT ![r] = [called EXCEPT !.pc = "done",
                      !.inserted = @ + 1,
                      !.resp = Json(req[r].parsed, 200)]]

(* Steps 8 and 9 once the store has answered the insert with outcome:     *)
(* the insight row and the answer.                                        *)
InsertAnswered(r, outcome) ==
  LET called == [req[r] EXCEPT !.trace =
                   Append(@, Call("insights.insert", outcome = "ok"))]
      row == InsightRow(req[r].relationship_id, req[r].parsed)
  IN
    IF outcome = "error"
    THEN /\ req' = [req EXCEPT ![r] = [called EXCEPT !.pc = "done",
                      !.resp = Json(ErrorBody(Str("insert failed")), 500)]]
         /\ UNCHANGED <<insights, clock>>
    ELSE /\ insights' = Append(insights, Stored(row, clock))
         /\ clock' = clock + 1
         /\ req' = [req EXCEPT ![r] = [called EXCEPT !.pc = "done",
                      !.inserted = @ + 1,
                      !.resp = Json(req[r].parsed, 200)]]

(* Steps 8 and 9: the insert and the answer. *)
AnalyzeInsert(r) ==
  /\ req[r].route = "analyze" /\ req[r].pc = "insert"
  /\ \E outcome \in StoreOutcomes : InsertAnswered(r, outcome)
  /\ UNCHANGED <<relationships, events, messages, apiKey, dash>>

----------------------------------------------------------------------------
(* The one-query handlers.  Each runs from the request to its answer in   *)
(* one step: it awaits the body and one store call.                       *)

(* Request r, on route with input, made the store calls of trace,         *)
(* inserted that many rows and answered resp.                             *)
Served(r, route, input, trace, inserted, resp) ==
  req' = [req EXCEPT ![r] = [Idle EXCEPT !.route = route, !.pc = "done",
            !.input = input, !.trace = trace, !.inserted = inserted,
            !.resp = resp]]

(* A variant of ParamMissing that tests for null alone. *)
ParamMissing_NullOnly(relationshipId) == relationshipId = JNull

(* !relationshipId *)
ParamMissing(relationshipId) == ~Truthy(relationshipId)

(* searchParams.get(name): null when the query has no such parameter. *)
SearchParam(query, name) ==
  IF name \in DOMAIN query THEN JStr(query[name]) ELSE JNull

(* The query strings of the GET requests. *)
Queries ==
  { [k \in {} |-> <<>>],
    [k \in {"relationship_id"} |-> <<>>],
    [k \in {"relationship_id"} |-> <<W("r1")>>],
    [k \in {"relationship_id"} |-> <<W("r2")>>],
    [k \in {"relationship_id"} |-> <<W("r9")>>] }

(* GET /api/relationships *)
RelationshipsGET(r) ==
  /\ req[r].pc = "idle"
  /\ \E outcome \in StoreOutcomes :
       LET answer == IF outcome = "error" THEN StoreError("store unavailable")
                     ELSE StoreData(Rows(OrderDesc(relationships)))
       IN Served(r, "GET relationships", <<>>, <<Call("relationships.select", ~Truthy(answer.error))>>, 0,
                 IF Truthy(answer.error)
                 THEN Json(ErrorBody(Get(answer.error, "message")), 500)
                 ELSE Json(answer.data, 200))
  /\ UNCHANGED <<relationships, events, insights, messages, clock, apiKey, dash>>

(* The ids the store gives the relationships it creates. *)
GeneratedIds == <<"r3", "r4", "r5", "r6", "r7">>

(* Request bodies of POST /api/relationships. *)
RelationshipBodies ==
  { <<W("not json")>>,
    <<P("null")>>,
    ObjText(<<>>),
    ObjText(<< <<"person_name", <<S(<<>>)>> >> >>),
    ObjText(<< <<"type", Lit("friend")>>, <<"notes", Lit("college")>> >>),
    ObjText(<< <<"person_name", Lit("Carol")>>, <<"type", Lit("friend")>>,
               <<"notes", Lit("college")>> >>),
    ObjText(<< <<"person_name", Lit("Carol")>>, <<"type", Lit("family")>> >>),
    ObjText(<< <<"person_name", Lit("Dan")>>, <<"type", Lit("friend")>>,
               <<"notes", <<S(<<>>)>> >> >>),
    ObjText(<< <<"person_name", Lit("Dan")>> >>) }

(* A variant of RelationshipRow that drops the notes. *)
RelationshipRow_NoNotes(person_name, type, notes) ==
  [person_name |-> person_name, type |-> type, notes |-> JNull]

(* The row POST /api/relationships hands to insert. *)
RelationshipRow(person_name, type, notes) ==
  [person_name |-> person_name, type |-> type, notes |-> OrElse(notes, JNull)]

(* POST /api/relationships *)
RelationshipsPOST(r, text) ==
  /\ req[r].pc = "idle"
  /\ Len(relationships) - Len(InitialRelationships) < Len(GeneratedIds)
  /\ LET json == JSONParse(text)
         body == json.val
         person_name == Get(body, "person_name")
         type == Get(body, "type")
         notes == Get(body, "notes")
         id == Str(GeneratedIds[Len(relationships) - Len(InitialRelationships) + 1])
         row == Stored([k \in {"id", "person_name", "type", "notes"} |->
                          IF k = "id" THEN id
                          ELSE RelationshipRow(person_name, type, notes)[k]], clock)
     IN
       IF ~json.ok \/ Throws(body)
       THEN /\ Served(r, "POST relationships", text, <<>>, 0, Escaped)
            /\ UNCHANGED <<relationships, clock>>
       ELSE IF ~Truthy(person_name)
       THEN /\ Served(r, "POST relationships", text, <<>>, 0,
                      Json(ErrorBody(Str("person_name is required")), 400))
            /\ UNCHANGED <<relationships, clock>>
       ELSE \E outcome \in StoreOutcomes :
         IF outcome = "error"
         THEN /\ Served(r, "POST relationships", text, <<Call("relationships.insert", FALSE)>>, 0,
                        Json(ErrorBody(Str("insert failed")), 500))
              /\ UNCHANGED <<relationships, clock>>
         ELSE /\ relationships' = Append(relationships, row)
              /\ clock' = clock + 1
              /\ Served(r, "POST relationships", text, <<Call("relationships.insert", TRUE)>>, 1,
                        Json(Row(row), 200))
  /\ UNCHANGED <<events, insights, messages, apiKey, dash>>

(* GET /api/events?relationship_id= *)
EventsGET(r, query) ==
  /\ req[r].pc = "idle"
  /\ LET relationshipId == SearchParam(query, "relationship_id") IN
       IF ParamMissing(relationshipId)
       THEN Served(r, "GET events", query, <<>>, 0,
                   Json(ErrorBody(Str("relationship_id is required")), 400))
       ELSE \E outcome \in StoreOutcomes :
         LET answer ==
               IF outcome = "error" THEN StoreError("store unavailable")
               ELSE StoreData(Rows(OrderDesc(Eq(events, "relationship_id", relationshipId))))
         IN Served(r, "GET events", query, <<Call("events.select", ~Truthy(answer.error))>>, 0,
                   IF Truthy(answer.error)
                   THEN Json(ErrorBody(Get(answer.error, "message")), 500)
                   ELSE Json(answer.data, 200))
  /\ UNCHANGED <<relationships, events, insights, messages, clock, apiKey, dash>>

(* Request bodies of POST /api/events. *)
EventBodies ==
  { <<W("not json")>>,
    <<P("null")>>,
    ObjText(<<>>),
    ObjText(<< <<"relationship_id", Lit("r1")>> >>),
    ObjText(<< <<"event_type", Lit("call")>> >>),
    ObjText(<< <<"relationship_id", Lit("r1")>>, <<"event_type", Lit("call")>>,
               <<"description", Lit("long talk")>> >>),
    ObjText(<< <<"relationship_id", Lit("r2")>>, <<"event_type", Lit("gift")>> >>),
    ObjText(<< <<"relationship_id", Lit("r9")>>, <<"event_type", Lit("call")>>,
               <<"description", <<S(<<>>)>> >> >>) }

(* The row POST /api/events hands to insert. *)
EventRow(relationship_id, event_type, description) ==
  [relationship_id |-> relationship_id, event_type |-> event_type,
   description |-> OrElse(description, JNull)]

(* POST /api/events *)
EventsPOST(r, text) ==
  /\ req[r].pc = "idle"
  /\ LET json == JSONParse(text)
         body == json.val
         relationship_id == Get(body, "relationship_id")
         event_type == Get(body, "event_type")
         description == Get(body, "description")
         row == Stored(EventRow(relationship_id, event_type, description), clock)
     IN
       IF ~json.ok \/ Throws(body)
       THEN /\ Served(r, "POST events", text, <<>>, 0, Escaped)
            /\ UNCHANGED <<events, clock>>
       ELSE IF ~Truthy(relationship_id)
       THEN /\ Served(r, "POST events", text, <<>>, 0,
                      Json(ErrorBody(Str("relationship_id is required")), 400))
            /\ UNCHANGED <<events, clock>>
       ELSE IF ~Truthy(event_type)
       THEN /\ Served(r, "POST events", text, <<>>, 0,
                      Json(ErrorBody(Str("event_type is required")), 400))
            /\ UNCHANGED <<events, clock>>
       ELSE \E outcome \in StoreOutcomes :
         IF outcome = "error"
         THEN /\ Served(r, "POST events", text, <<Call("events.insert", FALSE)>>, 0,
                        Json(ErrorBody(Str("insert failed")), 500))
              /\ UNCHANGED <<events, clock>>
         ELSE /\ events' = Append(events, row)
              /\ clock' = clock + 1
              /\ Served(r, "POST events", text, <<Call("events.insert", TRUE)>>, 1,
                        Json(Row(row), 200))
  /\ UNCHANGED <<relationships, insights, messages, apiKey, dash>>

(* GET /api/insights?relationship_id= *)
InsightsGET(r, query) ==
  /\ req[r].pc = "idle"
  /\ LET relationshipId == SearchParam(query, "relationship_id") IN
       IF ParamMissing(relationshipId)
       THEN Served(r, "GET insights", query, <<>>, 0,
                   Json(ErrorBody(Str("relationship_id is required")), 400))
       ELSE \E outcome \in StoreOutcomes :
         LET answer ==
               IF outcome = "error" THEN StoreError("store unavailable")
               ELSE StoreData(Rows(OrderDesc(Eq(insights, "relationship_id", relationshipId))))
         IN Served(r, "GET insights", query, <<Call("insights.select", ~Truthy(answer.error))>>, 0,
                   IF Truthy(answer.error)
                   THEN Json(ErrorBody(Get(answer.error, "message")), 500)
                   ELSE Json(answer.data, 200))
  /\ UNCHANGED <<relationships, events, insights, messages, clock, apiKey, dash>>

(* The text of an array literal of the texts elems. *)
RECURSIVE Elems(_)
Elems(elems) ==
  IF Len(elems) = 0 THEN <<>>
  ELSE elems[1] \o (IF Len(elems) > 1 THEN <<P(",")>> \o Elems(Tail(elems)) ELSE <<>>)

ArrText(elems) == <<P("[")>> \o Elems(elems) \o <<P("]")>>

(* A message of a batch, as a text. *)
MessageText(from_me, text, timestamp) ==
  ObjText(<< <<"from_me", from_me>>, <<"text", text>>, <<"timestamp", timestamp>> >>)

(* A batch of POST /api/messages, as a text. *)
BatchText(user_id, messagesText) ==
  ObjText(<< <<"user_id", user_id>>, <<"platform", Lit("whatsapp")>>,
             <<"thread_id", Lit("thread-123")>>, <<"messages", messagesText>> >>)

(* Request bodies of POST /api/messages. *)
MessageBodies ==
  { <<W("not json")>>,
    <<P("null")>>,
    ObjText(<<>>),
    ObjText(<< <<"user_id", Lit("u1")>>, <<"platform", Lit("whatsapp")>> >>),
    BatchText(<<N("42")>>, ArrText(<< MessageText(<<P("true")>>, Lit("hey"), Lit("t1")) >>)),
    BatchText(Lit("u1"), ArrText(<<>>)),
    BatchText(Lit("u1"), Lit("hey")),
    BatchText(Lit("u1"), ArrText(<< MessageText(<<P("true")>>, Lit("hey"), Lit("t1")),
                                    MessageText(<<P("false")>>, Lit("you?"), Lit("t2")) >>)),
    BatchText(Lit("u1"), ArrText(<< <<P("null")>>,
                                    ObjText(<< <<"text", <<N("5")>> >> >>),
                                    MessageText(Lit("yes"), <<S(<<>>)>>, <<N("0")>>) >>)) }

(* A variant of MessageRow that stores text and timestamp as submitted. *)
MessageRow_AsSubmitted(user_id, platform, thread_id, msg) ==
  [user_id |-> user_id, platform |-> platform, thread_id |-> thread_id,
   from_me |-> JBool(Truthy(Get(msg, "from_me"))),
   text |-> Get(msg, "text"),
   timestamp |-> Get(msg, "timestamp")]

(* The row of one message of the batch. *)
MessageRow(user_id, platform, thread_id, msg) ==
  [user_id |-> user_id, platform |-> platform, thread_id |-> thread_id,
   from_me |-> JBool(Truthy(Get(msg, "from_me"))),
   text |-> IF Get(msg, "text").t = "str" THEN Get(msg, "text") ELSE JStr(<<>>),
   timestamp |-> IF Get(msg, "timestamp").t = "str" THEN Get(msg, "timestamp") ELSE JNull]

(* A variant of MissingOrNotString that tests for a missing value alone. *)
MissingOrNotString_MissingOnly(x) == ~Truthy(x)

(* !x || typeof x !== 'string' *)
MissingOrNotString(x) == ~Truthy(x) \/ x.t # "str"

(* !Array.isArray(messages) || messages.length === 0 *)
NotNonEmptyArray(msgs) == msgs.t # "arr" \/ Len(msgs.e) = 0

(* A variant of MessageRows that keeps the messages that are objects.     *)
MessageRows_ObjectsOnly(user_id, platform, thread_id, msgs) ==
  LET kept == SelectSeq(msgs.e, LAMBDA msg : msg.t = "obj")
  IN [i \in DOMAIN kept |-> MessageRow(user_id, platform, thread_id, kept[i])]

(* messages.map((msg) => ({...})): one row a message. *)
MessageRows(user_id, platform, thread_id, msgs) ==
  [i \in DOMAIN msgs.e |-> MessageRow(user_id, platform, thread_id, msgs.e[i])]

(* POST /api/messages *)
MessagesPOST(r, text) ==
  /\ req[r].pc = "idle"
  /\ LET json == JSONParse(text)
         body == OrElse(json.val, JObj(EmptyFields))
         user_id == Get(body, "user_id")
         platform == Get(body, "platform")
         thread_id == Get(body, "thread_id")
         msgs == Get(body, "messages")
         rows == MessageRows(user_id, platform, thread_id, msgs)
         invalid(word) == Json(ErrorBody(Str(word)), 400)
     IN
       IF ~json.ok
       THEN /\ Served(r, "POST messages", text, <<>>, 0,
                      Json(ErrorBody(Str("Failed to ingest messages")), 500))
            /\ UNCHANGED messages
       ELSE IF MissingOrNotString(user_id)
       THEN /\ Served(r, "POST messages", text, <<>>, 0,
                      invalid("user_id is required and must be a string"))
            /\ UNCHANGED messages
       ELSE IF MissingOrNotString(platform)
       THEN /\ Served(r, "POST messages", text, <<>>, 0,
                      invalid("platform is required and must be a string"))
            /\ UNCHANGED messages
       ELSE IF MissingOrNotString(thread_id)
       THEN /\ Served(r, "POST messages", text, <<>>, 0,
                      invalid("thread_id is required and must be a string"))
            /\ UNCHANGED messages
       ELSE IF NotNonEmptyArray(msgs)
       THEN /\ Served(r, "POST messages", text, <<>>, 0,
                      invalid("messages is required and must be a non-empty array"))
            /\ UNCHANGED messages
       ELSE \E outcome \in StoreOutcomes :
         IF outcome = "error"
         THEN /\ Served(r, "POST messages", text, <<Call("messages.insert", FALSE)>>, 0,
                        Json(ErrorBody(Str("insert failed")), 500))
              /\ UNCHANGED messages
         ELSE /\ messages' = messages \o rows
              /\ Served(r, "POST messages", text, <<Call("messages.insert", TRUE)>>, Len(rows),
                        Json(JObj(Key("success") :> JBool(TRUE)
                                  @@ Key("inserted") :> [t |-> "count", count |-> Len(rows)]), 200))
  /\ UNCHANGED <<relationships, events, insights, clock, apiKey, dash>>

----------------------------------------------------------------------------
(* The dashboard page.  A fetch it starts is a flight: sent, then         *)
(* answered by the route's handler from the store as it is then, then     *)
(* done when the answer reaches the page and the code after the await     *)
(* runs.  The answers reach the page in any order.                        *)

(* The clicks of the user on the page. *)
MaxClicks == 3

(* fetch(...) of kind for the relationship id, not yet answered. *)
Flight(kind, id) ==
  [kind |-> kind, id |-> id, state |-> "sent", ok |-> FALSE, data |-> <<>>]

(* An insight as the page holds it, with the relationship it was          *)
(* fetched or produced for.                                               *)
Held(id, insight) == [of |-> id, insight |-> insight]

(* The insight a successful analysis answers with. *)
DashInsight == JSONParse(InsightText(<<N("0.7")>>, <<N("0.4")>>)).val

(* onClick={() => setSelectedRelationship(relationship)}, and the effect  *)
(* of the new selection: fetchEvents and fetchInsights up to their        *)
(* awaits, and the insight and the analysis error cleared.                *)
SelectRelationship(id) ==
  /\ dash.clicks < MaxClicks
  /\ \E i \in DOMAIN relationships : relationships[i].id = id
  /\ dash.selected # id
  /\ dash' = [dash EXCEPT !.selected = id,
                !.loadingEvents = TRUE, !.error = JNull,
                !.isLoadingInsights = TRUE,
                !.selectedInsight = JNull, !.analysisError = JNull,
                !.flights = @ \o <<Flight("events", id), Flight("insights", id)>>,
                !.clicks = @ + 1]
  /\ UNCHANGED <<relationships, events, insights, messages, clock, apiKey, req>>

(* handleAnalyze up to its await; the button is disabled while an         *)
(* analysis is running.                                                   *)
ClickAnalyze ==
  /\ dash.clicks < MaxClicks
  /\ Truthy(dash.selected)
  /\ ~dash.isAnalyzing
  /\ dash' = [dash EXCEPT !.isAnalyzing = TRUE,
                !.analysisError = JNull, !.error = JNull,
                !.flights = Append(@, Flight("analyze", dash.selected)),
                !.clicks = @ + 1]
  /\ UNCHANGED <<relationships, events, insights, messages, clock, apiKey, req>>

(* The flight f, answered with data or refused. *)
Answer(f, ok, data) == [f EXCEPT !.state = "answered", !.ok = ok, !.data = data]

(* GET /api/events and GET /api/insights answer a flight of the page. *)
ServeFetch(i) ==
  /\ i \in DOMAIN dash.flights
  /\ dash.flights[i].state = "sent"
  /\ dash.flights[i].kind \in {"events", "insights"}
  /\ \E outcome \in StoreOutcomes :
       LET f == dash.flights[i]
           table == IF f.kind = "events" THEN events ELSE insights
           rows == OrderDesc(Eq(table, "relationship_id", f.id))
       IN dash' = [dash EXCEPT !.flights[i] =
                     IF outcome = "error" THEN Answer(f, FALSE, <<>>)
                     ELSE Answer(f, TRUE, rows)]
  /\ UNCHANGED <<relationships, events, insights, messages, clock, apiKey, req>>

(* POST /api/analyze answers a flight of the page: the insight, inserted  *)
(* and returned, or an error and no insert.                               *)
ServeAnalyze(i) ==
  /\ i \in DOMAIN dash.flights
  /\ dash.flights[i].state = "sent"
  /\ dash.flights[i].kind = "analyze"
  /\ \E outcome \in StoreOutcomes :
       LET f == dash.flights[i] IN
       IF outcome = "error" \/ ~apiKey
       THEN /\ dash' = [dash EXCEPT !.flights[i] = Answer(f, FALSE, <<>>)]
            /\ UNCHANGED <<insights, clock>>
       ELSE /\ dash' = [dash EXCEPT !.flights[i] = Answer(f, TRUE, <<DashInsight>>)]
            /\ insights' = Append(insights, Stored(InsightRow(f.id, DashInsight), clock))
            /\ clock' = clock + 1
  /\ UNCHANGED <<relationships, events, messages, apiKey, req>>

(* fetchEvents after its await: setEvents(data), or the error kept. *)
EventsArrive(i) ==
  /\ i \in DOMAIN dash.flights
  /\ dash.flights[i].state = "answered"
  /\ dash.flights[i].kind = "events"
  /\ LET f == dash.flights[i] IN
       dash' = [dash EXCEPT
                  !.events = IF f.ok THEN f.data ELSE @,
                  !.error = IF f.ok THEN @ ELSE Str("Failed to load events"),
                  !.loadingEvents = FALSE,
                  !.flights[i].state = "done"]
  /\ UNCHANGED <<relationships, events, insights, messages, clock, apiKey, req>>

(* fetchInsights after its await: setInsightHistory(data), or []. *)
InsightsArrive(i) ==
  /\ i \in DOMAIN dash.flights
  /\ dash.flights[i].state = "answered"
  /\ dash.flights[i].kind = "insights"
  /\ LET f == dash.flights[i] IN
       dash' = [dash EXCEPT
                  !.insightHistory =
                     IF f.ok
                     THEN [k \in DOMAIN f.data |->
                             Held(f.data[k].relationship_id, Row(f.data[k]))]
                     ELSE <<>>,
                  !.isLoadingInsights = FALSE,
                  !.flights[i].state = "done"]
  /\ UNCHANGED <<relationships, events, insights, messages, clock, apiKey, req>>

(* handleAnalyze after its await: the insight shown and put first in the  *)
(* history, or the analysis error.                                        *)
AnalyzeArrive(i) ==
  /\ i \in DOMAIN dash.flights
  /\ dash.flights[i].state = "answered"
  /\ dash.flights[i].kind = "analyze"
  /\ LET f == dash.flights[i] IN
       dash' = [dash EXCEPT
                  !.selectedInsight = IF f.ok THEN Held(f.id, f.data[1]) ELSE @,
                  !.insightHistory =
                     IF f.ok THEN <<Held(f.id, f.data[1])>> \o @ ELSE @,
                  !.analysisError = IF f.ok THEN JNull ELSE Str("analysis failed"),
                  !.isAnalyzing = FALSE,
                  !.flights[i].state = "done"]
  /\ UNCHANGED <<relationships, events, insights, messages, clock, apiKey, req>>

(* The flights the page can have started. *)
Flights == 1..(2 * MaxClicks)

----------------------------------------------------------------------------
(* Specifications *)

Analyze(r) ==
  \/ \E text \in AnalyzeBodies : AnalyzeStart(r, text)
  \/ AnalyzeFetchRelationship(r)
  \/ AnalyzeFetchEvents(r)
  \/ AnalyzeCallGroq(r)
  \/ AnalyzeInsert(r)

NextAnalyze == \E r \in Reqs : Analyze(r)

(* The analyze handler alone, serving NumReqs requests at once. *)
SpecAnalyze == Init /\ [][NextAnalyze]_vars

NextRelationships ==
  \E r \in Reqs :
    \/ RelationshipsGET(r)
    \/ \E text \in RelationshipBodies : RelationshipsPOST(r, text)

(* The relationships route alone. *)
SpecRelationships == Init /\ [][NextRelationships]_vars

Next ==
  \E r \in Reqs :
    \/ Analyze(r)
    \/ RelationshipsGET(r)
    \/ \E text \in RelationshipBodies : RelationshipsPOST(r, text)
    \/ \E query \in Queries : EventsGET(r, query)
    \/ \E text \in EventBodies : EventsPOST(r, text)
    \/ \E query \in Queries : InsightsGET(r, query)
    \/ \E text \in MessageBodies : MessagesPOST(r, text)

NextMessages ==
  \E r \in Reqs : \E text \in MessageBodies : MessagesPOST(r, text)

(* The messages route alone. *)
SpecMessages == Init /\ [][NextMessages]_vars

(* Insights the store holds after earlier analyses. *)
InitialInsights ==
  [i \in 1..3 |->
     [relationship_id |-> IF i = 2 THEN Str("r2") ELSE Str("r1"),
      summary |-> Str("close friends"), pattern |-> Str("steady"),
      risk_score |-> JNum("20"), growth_score |-> JNum("80"),
      recommended_action |-> Str("call"), suggested_message |-> Str("hi"),
      created_at |-> FirstClock + i - 1]]

(* The store with or without events and insights of earlier requests. *)
InitReads ==
  /\ relationships = InitialRelationships
  /\ events \in {<<>>, InitialEvents}
  /\ insights \in {<<>>, InitialInsights}
  /\ messages = <<>>
  /\ clock = FirstClock + Len(InitialInsights)
  /\ apiKey = TRUE
  /\ req = [r \in Reqs |-> Idle]
  /\ dash = NoDashboard

NextReads ==
  \E r \in Reqs :
    \/ RelationshipsGET(r)
    \/ \E query \in Queries : EventsGET(r, query)
    \/ \E query \in Queries : InsightsGET(r, query)
    \/ \E text \in EventBodies : EventsPOST(r, text)

(* The three GET handlers, and POST /api/events writing beside them. *)
SpecReads == InitReads /\ [][NextReads]_vars

NextDashboard ==
  \/ \E i \in DOMAIN InitialRelationships :
       SelectRelationship(InitialRelationships[i].id)
  \/ ClickAnalyze
  \/ \E i \in Flights : ServeFetch(i)
  \/ \E i \in Flights : ServeAnalyze(i)
  \/ \E i \in Flights : EventsArrive(i)
  \/ \E i \in Flights : InsightsArrive(i)
  \/ \E i \in Flights : AnalyzeArrive(i)

(* The dashboard page over the routes it fetches. *)
SpecDashboard == Init /\ [][NextDashboard]_vars

(* Every route, serving NumReqs requests at once. *)
Spec == Init /\ [][Next]_vars

----------------------------------------------------------------------------
(* Properties of POST /api/analyze, under SpecAnalyze *)

AnalyzeDone(r) == req[r].route = "analyze" /\ req[r].pc = "done"

(* The relationship_id the request's body carries. *)
RequestedId(r) == Get(BodyOrNull(req[r].input), "relationship_id")

(* The request named a relationship the store holds. *)
RelationshipExists(r) ==
  Truthy(RequestedId(r)) /\ Len(Eq(relationships, "id", RequestedId(r))) = 1

(* The response is a JSON object with an error member. *)
HasError(resp) ==
  resp.kind = "json" /\ resp.body.t = "obj" /\ Key("error") \in DOMAIN resp.body.f

(* The last call of a trace. *)
Last(trace) == trace[Len(trace)]

(* The request called name. *)
Called(r, name) == \E i \in DOMAIN req[r].trace : req[r].trace[i].call = name

(* choices[0].message.content of the completion API's answer g. *)
Content(g) ==
  Get(Get(At(Get(JSONParse(g.body).val, "choices"), 0), "message"), "content")

(* The completion API answered request r with a 2xx status and a text. *)
CompletionIsText(r) ==
  Called(r, "groq") /\ GroqOk(req[r].groq) /\ Content(req[r].groq).t = "str"

(* C1: a POST /analyze request (with the API key configured) whose        *)
(* relationship_id names no row of the relationships table is answered    *)
(* 404 and inserts no insight.                                            *)
C1_MissingRelationshipIs404 ==
  \A r \in Reqs :
    (AnalyzeDone(r) /\ apiKey /\ Truthy(RequestedId(r))
       /\ Len(Eq(relationships, "id", RequestedId(r))) = 0)
    => (req[r].resp.status = 404 /\ req[r].inserted = 0)

(* C2: the insights table holds exactly one row for each analyze request  *)
(* answered 200 and none for any other: a request that answered an error  *)
(* status inserted nothing, a request that answered 200 inserted one row. *)
C2_OneRowIffSuccess ==
  /\ Len(insights) = Cardinality({r \in Reqs : AnalyzeDone(r) /\ req[r].resp.status = 200})
  /\ \A r \in Reqs :
       req[r].inserted = IF AnalyzeDone(r) /\ req[r].resp.status = 200 THEN 1 ELSE 0

C2_Witness ==
  \E r1, r2 \in Reqs :
    /\ AnalyzeDone(r1) /\ req[r1].resp.status = 200
    /\ AnalyzeDone(r2) /\ req[r2].resp.status = 500 /\ Called(r2, "insights.insert")
    /\ Len(insights) = 1

SixFields ==
  {"summary", "pattern", "risk_score", "growth_score", "recommended_action",
   "suggested_message"}

HasSixFields(x) == x.t = "obj" /\ \A k \in SixFields : Key(k) \in DOMAIN x.f

(* What the completion's text parses to. *)
ParsedCompletion(r) == JSONParse(Content(req[r].groq).s).val

(* C4: when the completion is valid JSON with the six fields and the      *)
(* store's insert succeeds, the step appends exactly one row to insights, *)
(* with the requested relationship_id and the six parsed values, and      *)
(* answers 200 with the parsed object.                                    *)
C4_InsightAppendedVerbatim ==
  [][\A r \in Reqs :
       (/\ req[r].route = "analyze" /\ req[r].pc = "insert" /\ req'[r].pc = "done"
        /\ Last(req'[r].trace).ok
        /\ CompletionIsText(r) /\ HasSixFields(ParsedCompletion(r)))
       => /\ Len(insights') = Len(insights) + 1
          /\ SubSeq(insights', 1, Len(insights)) = insights
          /\ insights'[Len(insights')].relationship_id = RequestedId(r)
          /\ \A k \in SixFields :
               insights'[Len(insights')][k] = ParsedCompletion(r).f[Key(k)]
          /\ req'[r].resp = Json(ParsedCompletion(r), 200)]_vars

C4_Witness ==
  \E r \in Reqs :
    /\ AnalyzeDone(r) /\ CompletionIsText(r) /\ HasSixFields(ParsedCompletion(r))
    /\ Last(req[r].trace) = Call("insights.insert", TRUE)
    /\ req[r].resp = Json(ParsedCompletion(r), 200)
    /\ Len(insights) = 1

(* A step of request r, or the completion API's answer to it, failed:    *)
(* a store call or the completion API answered with an error, or the      *)
(* completion was unparseable or empty.                                   *)
DownstreamFailure(r) ==
  \/ \E i \in DOMAIN req[r].trace : ~req[r].trace[i].ok
  \/ /\ Called(r, "groq") /\ GroqOk(req[r].groq)
     /\ \/ ~JSONParse(req[r].groq.body).ok
        \/ ~Truthy(Content(req[r].groq))
        \/ ~JSONParse(ToText(Content(req[r].groq))).ok

(* The completion API answered request r with a non-2xx status. *)
UpstreamRefused(r) ==
  Called(r, "groq") /\ ~req[r].groq.threw /\ ~GroqOk(req[r].groq)

LacksRelationshipId(r) == RequestedId(r) = Undef

(* C6 as stated: a request whose body lacks relationship_id is answered   *)
(* 400, and neither the store nor the completion API is called.           *)
C6_MissingIdIs400 ==
  \A r \in Reqs :
    (AnalyzeDone(r) /\ LacksRelationshipId(r))
    => (req[r].resp.status = 400 /\ req[r].trace = <<>>)

(* C6 amended: such a request is answered 400 when the API key is         *)
(* configured and 500 when it is not; in both cases neither the store     *)
(* nor the completion API is called.                                      *)
C6_MissingIdIs400WithKey ==
  \A r \in Reqs :
    (AnalyzeDone(r) /\ LacksRelationshipId(r))
    => /\ req[r].resp.status = IF apiKey THEN 400 ELSE 500
       /\ HasError(req[r].resp)
       /\ req[r].trace = <<>>

C6_Witness ==
  \E r \in Reqs :
    /\ AnalyzeDone(r) /\ apiKey /\ ~JSONParse(req[r].input).ok
    /\ req[r].resp.status = 400 /\ req[r].trace = <<>>

(* Request r takes its next step, a call of the store, and the step does  *)
(* not fail.                                                              *)
C7_Advance(r) ==
  \/ req[r].pc = "fetchRel" /\ AnalyzeFetchRelationship(r) /\ req'[r].pc = "fetchEvents"
  \/ req[r].pc = "fetchEvents" /\ AnalyzeFetchEvents(r) /\ req'[r].pc = "callGroq"
  \/ /\ req[r].pc = "insert" /\ AnalyzeInsert(r)
     /\ req'[r].resp.status = 200 /\ Len(insights') = Len(insights) + 1

(* C7: whatever the other requests have done or are doing, a request in   *)
(* flight for an existing relationship can take its next step, and the    *)
(* step can succeed: no request blocks or fails because of another. The   *)
(* completion API's step is open to the request, and whether it succeeds  *)
(* is a matter of the API's answer alone.                                 *)
(* With the witness: two requests for one relationship both answered      *)
(* 200, and two insights of that relationship.                            *)
C7_NoInterference ==
  \A r \in Reqs :
    (req[r].route = "analyze" /\ req[r].pc \notin {"idle", "done"}
       /\ RelationshipExists(r))
    => IF req[r].pc = "callGroq"
       THEN (ENABLED AnalyzeCallGroq(r)) /\ \E g \in GroqOutcomes : GroqResults[g].go
       ELSE ENABLED C7_Advance(r)

C7_Witness ==
  \E r1, r2 \in Reqs :
    /\ r1 # r2
    /\ AnalyzeDone(r1) /\ req[r1].resp.status = 200
    /\ AnalyzeDone(r2) /\ req[r2].resp.status = 200
    /\ RequestedId(r1) = RequestedId(r2)
    /\ Len(Eq(insights, "relationship_id", RequestedId(r1))) = 2

----------------------------------------------------------------------------
(* Properties of every route, under Spec *)

(* C8: every handler answers every request with a JSON response, and      *)
(* every answer that is not a success with a body containing error: no    *)
(* exception escapes a handler.                                           *)
C8_EveryFailureIsJsonError ==
  \A r \in Reqs :
    req[r].pc = "done"
    => /\ req[r].resp.kind = "json"
       /\ req[r].resp.status # 200 => HasError(req[r].resp)

----------------------------------------------------------------------------
(* Properties of POST /api/relationships, under SpecRelationships *)

RelationshipPosted(r) == req[r].route = "POST relationships" /\ req[r].pc = "done"

(* The member k of the request's JSON body. *)
Submitted(r, k) == Get(JSONParse(req[r].input).val, k)

(* C9: a POST /relationships request whose JSON body carries no           *)
(* person_name (the member absent or empty, or a body that has no         *)
(* members) is answered 400 and creates no relationship.                  *)
C9_NoNameIs400 ==
  \A r \in Reqs :
    (RelationshipPosted(r) /\ JSONParse(req[r].input).ok
       /\ ~Truthy(Submitted(r, "person_name")))
    => (req[r].resp.kind = "json" /\ req[r].resp.status = 400 /\ req[r].inserted = 0)

(* The store created the relationship of request r. *)
RelationshipCreated(r) ==
  RelationshipPosted(r) /\ req[r].trace = <<Call("relationships.insert", TRUE)>>

(* The stored row is the one the request was answered with, and its       *)
(* person_name and type are the submitted ones.                           *)
NameAndTypeStored(r, row) ==
  /\ req[r].resp = Json(Row(row), 200)
  /\ row.person_name = Submitted(r, "person_name")
  /\ row.type = IF Submitted(r, "type") = Undef THEN JNull ELSE Submitted(r, "type")

(* C10 as stated: the stored row's person_name, type and notes are the    *)
(* submitted ones, whatever the submitted notes, and notes is null when   *)
(* omitted.                                                               *)
C10_StoredEqualsSubmitted ==
  \A r \in Reqs :
    RelationshipCreated(r)
    => \E i \in DOMAIN relationships :
         /\ NameAndTypeStored(r, relationships[i])
         /\ relationships[i].notes =
              IF Submitted(r, "notes") = Undef THEN JNull ELSE Submitted(r, "notes")

(* C10 amended: notes is the submitted one when that is not empty, and    *)
(* null when notes is omitted or empty.                                   *)
C10_StoredEqualsSubmittedNonEmptyNotes ==
  \A r \in Reqs :
    RelationshipCreated(r)
    => \E i \in DOMAIN relationships :
         /\ NameAndTypeStored(r, relationships[i])
         /\ relationships[i].notes =
              IF Truthy(Submitted(r, "notes")) THEN Submitted(r, "notes") ELSE JNull

C10_Witness ==
  \E r1, r2 \in Reqs :
    /\ RelationshipCreated(r1) /\ Truthy(Submitted(r1, "notes"))
    /\ RelationshipCreated(r2) /\ Submitted(r2, "notes") = Undef
    /\ \E i, j \in DOMAIN relationships :
         /\ req[r1].resp.body.row = relationships[i]
         /\ relationships[i].notes = Submitted(r1, "notes")
         /\ req[r2].resp.body.row = relationships[j]
         /\ relationships[j].notes = JNull

----------------------------------------------------------------------------
(* Properties of POST /api/messages, under SpecMessages *)

MessagesPosted(r) == req[r].route = "POST messages" /\ req[r].pc = "done"

(* The JSON body of the request, as the handler reads it: body || {}. *)
Batch(r) == OrElse(JSONParse(req[r].input).val, JObj(EmptyFields))

(* The member k of the batch is missing or is not a string. *)
NoStringAt(r, k) == ~Truthy(Get(Batch(r), k)) \/ Get(Batch(r), k).t # "str"

(* The batch fails the validation the claim describes. *)
BatchInvalid(r) ==
  \/ NoStringAt(r, "user_id") \/ NoStringAt(r, "platform") \/ NoStringAt(r, "thread_id")
  \/ Get(Batch(r), "messages").t # "arr"
  \/ Len(Get(Batch(r), "messages").e) = 0

(* C11: a POST /messages request with a JSON body in which user_id,       *)
(* platform or thread_id is missing or not a string, or messages is not   *)
(* an array or is an empty array, is answered 400, the store is not       *)
(* called and no row is inserted into messages.                           *)
C11_InvalidBatchIs400 ==
  \A r \in Reqs :
    (MessagesPosted(r) /\ JSONParse(req[r].input).ok /\ BatchInvalid(r))
    => /\ req[r].resp.status = 400 /\ HasError(req[r].resp)
       /\ req[r].inserted = 0 /\ req[r].trace = <<>>

C11_Witness ==
  \E r1, r2 \in Reqs :
    /\ MessagesPosted(r1) /\ JSONParse(req[r1].input).ok
    /\ Get(Batch(r1), "user_id").t = "num" /\ req[r1].resp.status = 400
    /\ MessagesPosted(r2) /\ JSONParse(req[r2].input).ok
    /\ ~NoStringAt(r2, "user_id") /\ Get(Batch(r2), "messages").t = "arr"
    /\ Len(Get(Batch(r2), "messages").e) = 0 /\ req[r2].resp.status = 400
    /\ messages = <<>>

(* The body of the successful answer that reports count rows. *)
IngestedBody(count) ==
  JObj(Key("success") :> JBool(TRUE)
       @@ Key("inserted") :> [t |-> "count", count |-> count])

(* C12: when a POST /messages request passes validation with N messages   *)
(* and the store's insert succeeds, the step appends exactly N rows to    *)
(* messages, one a message and in the order of the batch, and answers     *)
(* 200 with { success: true, inserted: N }.                               *)
C12_InsertedCountIsRows ==
  [][\A r \in Reqs :
       (/\ req[r].pc = "idle" /\ req'[r].route = "POST messages"
        /\ req'[r].trace = <<Call("messages.insert", TRUE)>>)
       => LET sent == Get(OrElse(JSONParse(req'[r].input).val, JObj(EmptyFields)),
                          "messages").e
          IN /\ Len(sent) >= 1
             /\ Len(messages') = Len(messages) + Len(sent)
             /\ SubSeq(messages', 1, Len(messages)) = messages
             /\ req'[r].inserted = Len(sent)
             /\ req'[r].resp = Json(IngestedBody(Len(sent)), 200)]_vars

C12_Witness ==
  \E r1, r2 \in Reqs :
    /\ MessagesPosted(r1) /\ req[r1].resp = Json(IngestedBody(2), 200)
    /\ MessagesPosted(r2) /\ req[r2].resp = Json(IngestedBody(3), 200)
    /\ Len(messages) = 5

(* The batch names user_id, platform and thread_id as non-empty strings  *)
(* and messages as a non-empty array.                                     *)
BatchAccepted(batch) ==
  /\ \A k \in {"user_id", "platform", "thread_id"} :
       Get(batch, k).t = "str" /\ Truthy(Get(batch, k))
  /\ Get(batch, "messages").t = "arr"
  /\ Len(Get(batch, "messages").e) >= 1

(* The stored row is the row of the submitted element msg of a batch of   *)
(* user_id, platform and thread_id.                                       *)
RowCarries(row, batch, msg) ==
  /\ row.user_id = Get(batch, "user_id")
  /\ row.platform = Get(batch, "platform")
  /\ row.thread_id = Get(batch, "thread_id")
  /\ row.from_me \in {JBool(TRUE), JBool(FALSE)}
  /\ row.text.t = "str"
  /\ row.text = (IF Get(msg, "text").t = "str" THEN Get(msg, "text") ELSE JStr(<<>>))
  /\ row.timestamp.t \in {"str", "null"}
  /\ Get(msg, "timestamp").t = "str" => row.timestamp = Get(msg, "timestamp")

(* C24: a batch that passes the checks of user_id, platform, thread_id    *)
(* and messages reaches the insert whatever its elements are, and when    *)
(* the insert succeeds the k-th new row is the row of the k-th element:   *)
(* the request's user_id, platform and thread_id, a boolean from_me, a    *)
(* string text ('' when the element's text is not a string) and a         *)
(* timestamp that is a string or null.                                    *)
C24_RowsOfMessages ==
  [][\A r \in Reqs :
       (req[r].pc = "idle" /\ req'[r].route = "POST messages")
       => \A batch \in {OrElse(JSONParse(req'[r].input).val, JObj(EmptyFields))} :
            BatchAccepted(batch)
            => /\ req'[r].trace # <<>>
               /\ req'[r].trace[1].call = "messages.insert"
               /\ req'[r].resp.status # 400
               /\ req'[r].trace[1].ok
                  => \A sent \in {Get(batch, "messages").e} :
                       /\ Len(messages') = Len(messages) + Len(sent)
                       /\ \A k \in DOMAIN sent :
                            RowCarries(messages'[Len(messages) + k], batch, sent[k])]_vars

C24_Witness ==
  \E r \in Reqs :
    /\ MessagesPosted(r) /\ req[r].resp = Json(IngestedBody(3), 200)
    /\ \E n \in DOMAIN messages :
         /\ n + 2 \in DOMAIN messages
         /\ messages[n].text = JStr(<<>>) /\ messages[n].timestamp = JNull
         /\ messages[n].from_me = JBool(FALSE)
         /\ messages[n + 1].text = JStr(<<>>) /\ messages[n + 2].from_me = JBool(TRUE)
         /\ messages[n + 2].timestamp = JNull

----------------------------------------------------------------------------
(* Properties of the GET handlers, under SpecReads *)

(* Request r takes the step of the handler of route. *)
Serves(r, route) == req[r].pc = "idle" /\ req'[r].route = route

(* The rows of a successful answer. *)
Answered(resp) == resp.body.rows

(* The rows are in order of created_at, newest first. *)
NewestFirst(rows) ==
  \A i, j \in DOMAIN rows : i < j => rows[i].created_at >= rows[j].created_at

(* The rows are the rows of kept, each once. *)
ExactlyRows(rows, kept) ==
  /\ {rows[i] : i \in DOMAIN rows} = {kept[i] : i \in DOMAIN kept}
  /\ Len(rows) = Len(kept)

(* The rows of table whose relationship_id is the text id. *)
WithRelationshipId(table, id) ==
  SelectSeq(table, LAMBDA row : row.relationship_id = JStr(id))

(* C13: the array a successful GET /events, GET /insights or GET          *)
(* /relationships answers with is in order of created_at, newest first;   *)
(* for events and insights it holds exactly the rows of the table whose   *)
(* relationship_id is the query parameter, for relationships every row.   *)
C13_ReadsNewestFirst ==
  [][\A r \in Reqs :
       /\ (Serves(r, "GET relationships") /\ req'[r].resp.status = 200)
          => /\ NewestFirst(Answered(req'[r].resp))
             /\ ExactlyRows(Answered(req'[r].resp), relationships)
       /\ (Serves(r, "GET events") /\ req'[r].resp.status = 200)
          => /\ NewestFirst(Answered(req'[r].resp))
             /\ ExactlyRows(Answered(req'[r].resp),
                  WithRelationshipId(events, req'[r].input["relationship_id"]))
       /\ (Serves(r, "GET insights") /\ req'[r].resp.status = 200)
          => /\ NewestFirst(Answered(req'[r].resp))
             /\ ExactlyRows(Answered(req'[r].resp),
                  WithRelationshipId(insights, req'[r].input["relationship_id"]))]_vars

C13_Witness ==
  \E r1, r2 \in Reqs :
    /\ req[r1].route = "GET events" /\ req[r1].resp.status = 200
    /\ Len(Answered(req[r1].resp)) = EventLimit + 1
    /\ Answered(req[r1].resp)[1].created_at > Answered(req[r1].resp)[2].created_at
    /\ req[r2].route = "GET insights" /\ req[r2].resp.status = 200
    /\ Len(Answered(req[r2].resp)) = 2 /\ Len(insights) = 3
    /\ Answered(req[r2].resp)[1].created_at > Answered(req[r2].resp)[2].created_at

(* The request's query has no relationship_id, or an empty one. *)
NoRelationshipIdParam(r) ==
  \/ "relationship_id" \notin DOMAIN req[r].input
  \/ Len(req[r].input["relationship_id"]) = 0

(* C14: a GET /events or GET /insights request without a non-empty        *)
(* relationship_id query parameter is answered 400, and the store is not  *)
(* read.                                                                  *)
C14_NoParamIs400 ==
  \A r \in Reqs :
    (req[r].route \in {"GET events", "GET insights"} /\ req[r].pc = "done"
       /\ NoRelationshipIdParam(r))
    => /\ req[r].resp.status = 400 /\ HasError(req[r].resp)
       /\ req[r].trace = <<>>

C14_Witness ==
  \E r1, r2 \in Reqs :
    /\ req[r1].route = "GET events" /\ req[r1].pc = "done"
    /\ "relationship_id" \notin DOMAIN req[r1].input
    /\ req[r1].resp.status = 400 /\ req[r1].trace = <<>>
    /\ req[r2].route = "GET insights" /\ req[r2].pc = "done"
    /\ "relationship_id" \in DOMAIN req[r2].input
    /\ Len(req[r2].input["relationship_id"]) = 0
    /\ req[r2].resp.status = 400 /\ req[r2].trace = <<>>

----------------------------------------------------------------------------
(* Properties of POST /api/events, under SpecReads *)

EventPosted(r) == req[r].route = "POST events" /\ req[r].pc = "done"

(* The member k of the JSON body of a POST /api/events request. *)
SubmittedEvent(r, k) == Get(JSONParse(req[r].input).val, k)

(* C15: a POST /events request whose JSON body is missing relationship_id *)
(* or event_type is answered 400 and creates no event; when both are      *)
(* present and the insert succeeds, one event is created with the         *)
(* submitted relationship_id and event_type, and with description null    *)
(* when omitted, whether or not the relationship exists.                  *)
C15_EventsPostContract ==
  \A r \in Reqs :
    (EventPosted(r) /\ JSONParse(req[r].input).ok)
    => /\ (~Truthy(SubmittedEvent(r, "relationship_id"))
             \/ ~Truthy(SubmittedEvent(r, "event_type")))
          => (req[r].resp.kind = "json" /\ req[r].resp.status = 400
                /\ req[r].inserted = 0)
       /\ req[r].trace = <<Call("events.insert", TRUE)>>
          => /\ req[r].inserted = 1
             /\ \E i \in DOMAIN events :
                  /\ req[r].resp = Json(Row(events[i]), 200)
                  /\ events[i].relationship_id = SubmittedEvent(r, "relationship_id")
                  /\ events[i].event_type = SubmittedEvent(r, "event_type")
                  /\ SubmittedEvent(r, "description") = Undef
                     => events[i].description = JNull

----------------------------------------------------------------------------
(* The shape of error responses, under Spec *)

(* Request r was answered with a JSON response that is not a success. *)
ErrorAnswered(r) ==
  req[r].pc = "done" /\ req[r].resp.kind = "json" /\ req[r].resp.status # 200

(* The body is an object of error and, if any, raw. *)
ErrorShaped(body) ==
  /\ body.t = "obj"
  /\ Key("error") \in DOMAIN body.f
  /\ DOMAIN body.f \subseteq {Key("error"), Key("raw")}

(* The body of the completion API's answer to request r, parsed. *)
UpstreamBody(r) == JSONParse(req[r].groq.body).val

----------------------------------------------------------------------------
(* The pipeline of POST /api/analyze, under SpecAnalyze *)

(* The external calls of the pipeline, in its order. *)
Pipeline == <<"relationships.select", "events.select", "groq", "insights.insert">>

(* C17: the calls a POST /analyze request has made are the first calls of *)
(* the pipeline, each once and in its order; every call but the last      *)
(* succeeded, and a call that failed ended the request; the completion    *)
(* API is called only with the relationship's row read, and the insert    *)
(* only with a completion that parsed as JSON.                            *)
C17_LinearPipeline ==
  \A r \in Reqs :
    req[r].route = "analyze"
    => /\ Len(req[r].trace) <= Len(Pipeline)
       /\ \A i \in DOMAIN req[r].trace :
            /\ req[r].trace[i].call = Pipeline[i]
            /\ i < Len(req[r].trace) => req[r].trace[i].ok
            /\ ~req[r].trace[i].ok => req[r].pc = "done"
       /\ Called(r, "groq")
          => /\ req[r].relationship.t = "row"
             /\ req[r].relationship.row.id = RequestedId(r)
       /\ Called(r, "insights.insert")
          => /\ GroqOk(req[r].groq)
             /\ JSONParse(ToText(Content(req[r].groq))).ok

C17_Witness ==
  \E r1, r2 \in Reqs :
    /\ AnalyzeDone(r1) /\ req[r1].resp.status = 200
    /\ [i \in DOMAIN req[r1].trace |-> req[r1].trace[i].call] = Pipeline
    /\ AnalyzeDone(r2) /\ Len(req[r2].trace) = 2
    /\ ~Last(req[r2].trace).ok /\ req[r2].resp.status = 500

(* The events of the relationship request r names, as the table holds     *)
(* them.                                                                  *)
EventsOf(r) ==
  SelectSeq(events, LAMBDA e : e.relationship_id = req[r].relationship_id)

(* The line of the prompt is the line of event e. *)
LineOf(line, e) ==
  /\ line.created_at = e.created_at
  /\ line.event_type = e.event_type
  /\ line.description = IF e.description = JNull THEN JStr(<<>>) ELSE e.description

(* C18: when the events read of a POST /analyze request succeeds, the     *)
(* prompt holds the lines of at most EventLimit events of the requested   *)
(* relationship, newest first and none older than an event left out; with *)
(* no events it holds the placeholder; either way the request goes on to  *)
(* the completion call.                                                   *)
C18_PromptHasRecentEvents ==
  [][\A r \in Reqs :
       (/\ req[r].route = "analyze" /\ req[r].pc = "fetchEvents"
        /\ req'[r].pc # "fetchEvents" /\ Last(req'[r].trace).ok)
       => LET lines == req'[r].prompt.events
              mine == EventsOf(r)
          IN /\ req'[r].pc = "callGroq"
             /\ IF Len(mine) = 0
                THEN lines = <<[placeholder |-> "No events logged."]>>
                ELSE /\ Len(lines) = IF Len(mine) < EventLimit THEN Len(mine)
                                     ELSE EventLimit
                     /\ \A i, j \in DOMAIN lines :
                          i < j => lines[i].created_at >= lines[j].created_at
                     /\ \A i \in DOMAIN lines :
                          \E k \in DOMAIN mine : LineOf(lines[i], mine[k])
                     /\ \A k \in DOMAIN mine :
                          \/ \E i \in DOMAIN lines : LineOf(lines[i], mine[k])
                          \/ \A i \in DOMAIN lines :
                               lines[i].created_at >= mine[k].created_at]_vars

C18_Witness ==
  \E r \in Reqs :
    /\ req[r].route = "analyze" /\ Called(r, "groq")
    /\ Len(EventsOf(r)) = EventLimit + 1
    /\ Len(req[r].prompt.events) = EventLimit
    /\ req[r].prompt.events[1].created_at = FirstClock - 1

(* C19: whenever the text of the completion parses as JSON, the request   *)
(* attempts the insert, with the values the parsed value has for the six  *)
(* columns, and when the insert succeeds answers 200 with the parsed      *)
(* value: no completion that parses as JSON is rejected.                  *)
C19_AnyJsonIsInserted ==
  \A r \in Reqs :
    (AnalyzeDone(r) /\ CompletionIsText(r) /\ Truthy(Content(req[r].groq))
       /\ JSONParse(Content(req[r].groq).s).ok)
    => /\ Called(r, "insights.insert")
       /\ Last(req[r].trace).ok
          => /\ req[r].resp = Json(ParsedCompletion(r), 200)
             /\ \E i \in DOMAIN insights :
                  \A k \in SixFields :
                    insights[i][k] = Column(Get(ParsedCompletion(r), k))

(* The completion API answered request r with a 2xx status and a JSON     *)
(* object.                                                                *)
CompletionAnswered(r) ==
  Called(r, "groq") /\ GroqOk(req[r].groq) /\ JSONParse(req[r].groq.body).ok
    /\ UpstreamBody(r).t = "obj"

C21_KeyCheckedFirst ==
  \A r \in Reqs :
    (req[r].route = "analyze" /\ ~apiKey)
    => /\ req[r].pc = "done"
       /\ req[r].resp = Json(ErrorBody(Str("Missing GROQ_API_KEY")), 500)
       /\ req[r].trace = <<>>
       /\ insights = <<>>

C21_Witness ==
  \E r1, r2 \in Reqs :
    /\ ~apiKey
    /\ AnalyzeDone(r1) /\ LacksRelationshipId(r1)
    /\ req[r1].resp = Json(ErrorBody(Str("Missing GROQ_API_KEY")), 500)
    /\ AnalyzeDone(r2) /\ Truthy(RequestedId(r2)) /\ ~RelationshipExists(r2)
    /\ req[r2].resp = Json(ErrorBody(Str("Missing GROQ_API_KEY")), 500)

----------------------------------------------------------------------------
(* Properties of the dashboard page, under SpecDashboard *)

(* Every fetch the page started has been answered and handled. *)
Quiet == \A i \in DOMAIN dash.flights : dash.flights[i].state = "done"

(* C22: with a relationship selected and no fetch in flight, the insight  *)
(* history holds only insights of the selected relationship, and the      *)
(* insight shown, if any, is one of the selected relationship: the        *)
(* answer to an analysis started for another relationship is not added.   *)
C22_HistoryOfSelected ==
  (Quiet /\ Truthy(dash.selected))
  => /\ \A k \in DOMAIN dash.insightHistory :
          dash.insightHistory[k].of = dash.selected
     /\ dash.selectedInsight # JNull => dash.selectedInsight.of = dash.selected

(* The events fetch the page started last, for the selection it has. *)
LastEventsFlight ==
  dash.flights[CHOOSE i \in DOMAIN dash.flights :
                 /\ dash.flights[i].kind = "events"
                 /\ \A j \in DOMAIN dash.flights :
                      dash.flights[j].kind = "events" => j <= i]

(* C23: with a relationship selected, no fetch in flight and the events   *)
(* fetch of that selection answered with a list, the events shown are     *)
(* that list, in whatever order the answers arrived.                      *)
C23_EventsOfSelected ==
  (Quiet /\ Truthy(dash.selected) /\ LastEventsFlight.ok)
  => /\ LastEventsFlight.id = dash.selected
     /\ dash.events = LastEventsFlight.data


=============================================================================
